---- MODULE Spec2Model ----
(***************************************************************************)
(* Model of three cogs of Codz-Cogs:                                       *)
(*   MuteSync           (src/mutesync/mutesync.py)                          *)
(*   GameInviteControl  (src/gameinvitecontrol/gameinvitecontrol.py)        *)
(*   StickerControl     (src/stickercontrol/stickercontrol.py)              *)
(* Each handler (command or listener) is one action.  What a handler reads  *)
(* from the host while it runs (names, permissions, reachability of guilds, *)
(* outcomes of the calls it makes, the clock) is an input of the action.    *)
(***************************************************************************)
EXTENDS Integers, Sequences, FiniteSets, TLC

VARIABLES
    \* ---- MuteSync: per-guild Config values
    mute_sources,       \* guild -> list of guild ids it pulls mutes from
    mute_count,         \* guild -> stored dict: source guild -> mutes pulled
    cached_guild_name,  \* guild -> last saved display name
    \* ---- MuteSync: in-process state
    mute_cache,         \* self.mute_cache: guild id -> (user id -> bool)
    \* ---- the host: guild names, and the member cache from which `before` of a
    \*      member update comes
    guild_name,         \* guild -> current display name
    timed_out_until,    \* guild -> user -> timed_out_until
    \* ---- observation
    last,               \* the handler that ran last, its inputs and what it did
    n_steps,            \* handlers run and renames made so far
    \* ---- GameInviteControl: Config values of one guild
    gi_enabled,         \* "enabled"
    invite_log,         \* "invite_log": list of entries, most recent first
    \* ---- GameInviteControl: the host's clock, and observation
    clock,              \* the minute discord.utils.utcnow() falls in
    n_clock,            \* clock changes so far
    appended,           \* the entries appended since the log was last empty, in order
    viewed,             \* what the last [p]gameinvite log showed, if nothing ran since
    \* ---- the inclusion policy evaluators
    pol_input,          \* a channel and a guild configuration
    pol_result,         \* what the two evaluators return for it
    \* ---- MuteSync, one step at a time: the event loop
    events,             \* member updates the host has sent and the bot has not handled
    tasks,              \* the runs of _handle_mute_unmute under way
    n_external,         \* timeouts set or lifted by moderators so far
    \* ---- MuteSync commands, one step at a time
    waiting,            \* the enable commands that wait for their confirmation
    \* ---- GameInviteControl, one step at a time, in two guilds
    presence_cfg,       \* guild -> enabled, tracked_games, log_channel, delete_invites
    presence_log,       \* guild -> "invite_log"
    presence_runs,      \* the runs of on_presence_update under way
    \* ---- StickerControl: Config values of one guild
    sticker_cfg         \* mode, channels, categories, enabled, log_channel

mutesync_vars == <<mute_sources, mute_count, cached_guild_name, mute_cache, guild_name,
                   timed_out_until, last, n_steps>>

log_vars == <<gi_enabled, invite_log, clock, n_clock, appended, viewed>>

policy_vars == <<pol_input, pol_result>>

prop_vars == <<events, tasks, n_external>>

cmd_vars == <<waiting>>

\* the state that only the specifications further down use
presence_vars == <<presence_cfg, presence_log, presence_runs>>

sticker_vars == <<sticker_cfg>>

more_vars == <<cmd_vars, presence_vars, sticker_vars>>

vars == <<mutesync_vars, log_vars, policy_vars, prop_vars, more_vars>>

----------------------------------------------------------------------------
\* Bounds of the model
MaxSteps == 4       \* commands, member updates and renames in one behaviour
MaxExtra == 2       \* entries appended beyond the capacity of the invite log
MaxClockChanges == 1  \* times the clock moves to another minute
MaxListLen == 2     \* length of the channel and category lists of a policy
MaxExternal == 2    \* timeouts set or lifted by moderators
MaxPending == 2     \* member updates waiting to be handled
MaxTasks == 2       \* runs of _handle_mute_unmute under way at once
MaxWaiting == 2     \* enable commands waiting for their confirmation at once
MaxPresence == 3    \* presence updates in one behaviour
MaxRuns == 2        \* runs of on_presence_update under way at once

Guilds == {1, 2, 3}
Users  == {42}
Names  == {"alpha", "beta"}
Times  == {"t1", "t2"}
NoTimeout == "None"
TimedOutValues == Times \cup {NoTimeout}
\* a destination guild as the listener finds it: bot.get_guild(id) is a guild and
\* is available and the bot may time members out ("ok"), it may not ("no_perm"),
\* or the guild is not there or unavailable ("unreachable")
GuildStatuses == {"ok", "no_perm", "unreachable"}

Range(s) == {s[i] : i \in 1..Len(s)}

\* (a faulty removal: drops the first element, whatever it is)
ListRemoveFront(s, x) == Tail(s)

\* (a faulty removal: drops the last element, whatever it is)
ListRemoveLast(s, x) == SubSeq(s, 1, Len(s) - 1)

\* list.remove(x): drops the first occurrence of x
RECURSIVE ListRemove(_, _)
ListRemove(s, x) ==
    IF s = <<>> THEN <<>>
    ELSE IF Head(s) = x THEN Tail(s)
    ELSE <<Head(s)>> \o ListRemove(Tail(s), x)

\* default_guild_settings
DefaultGuildName == "Unknown Server Name"
DefaultMuteSources == <<>>
EmptyDict == [k \in {} |-> 0]
DefaultMuteCount == EmptyDict

\* Config.all_guilds(): the guilds that have a stored record.  Every code path
\* that writes a guild's record also writes its cached_guild_name.
all_guilds(names) == {g \in Guilds : names[g] # DefaultGuildName}

Nothing == [kind |-> "none"]

----------------------------------------------------------------------------
\* MuteSync commands

\* The converted `server` argument of a command
GuildArg(g) == [type |-> "Guild", id |-> g, text |-> ""]
IntArg(n)   == [type |-> "int", id |-> n, text |-> ""]
StrArg(t)   == [type |-> "str", id |-> 0, text |-> t]
\* the texts that are no guild the bot is in: names, and a name in other case
ArgTexts    == Names \cup {"ALPHA"}
EnableArgs  == {GuildArg(g) : g \in Guilds} \cup {StrArg(n) : n \in Names}
DisableArgs == {GuildArg(g) : g \in Guilds} \cup {IntArg(g) : g \in Guilds}
                 \cup {StrArg(n) : n \in ArgTexts}

\* the record of a command: the guild it ran in, the type of its argument, the id
\* the argument stands for (0: none), the messages the bot sent, and what the command
\* found: the guild's mute_sources, the bot's permission, the name of the server
Said(cmd, g, server_id, moderate, msgs, arg) ==
    [kind |-> cmd, arg |-> arg, guild |-> g, server |-> server_id, reply |-> msgs,
     moderate |-> moderate,
     sources_before |-> mute_sources[g],
     server_name |-> IF server_id \in Guilds THEN guild_name[server_id] ELSE ""]

\* (a faulty check that lets a guild pull from itself)
never_this_guild(server, g) == FALSE

\* server == ctx.guild
is_this_guild(server, g) == server.id = g

\* (a faulty refresh that leaves the cached names as they are)
names_kept(names, g, server_id) == names

\* enable, when already pulling: update our and their cached guild name
names_refreshed(names, g, server_id) ==
    [names EXCEPT ![g] = guild_name[g], ![server_id] = guild_name[server_id]]

\* what the confirmation wait of enable can end with
Answers == {"yes", "no", "timeout"}

\* (a faulty confirmation that takes every end of the wait for a yes)
always_confirmed(answer) == TRUE

\* pred.result: the wait ended with a yes
confirmed(answer) == answer = "yes"

\* enable gets as far as asking for confirmation
asks(g, server, moderate) ==
    /\ moderate
    /\ server.type # "str"
    /\ ~is_this_guild(server, g)
    /\ server.id \notin Range(mute_sources[g])

\* [p]mutesync enable <server>, run in guild g.  Inputs: moderate, whether the bot
\* has the Timeout Members permission in g; answer, what the confirmation wait ends
\* with ("none" when the command does not ask).
enable(g, server, moderate, answer) ==
    /\ n_steps < MaxSteps
    /\ n_steps' = n_steps + 1
    /\ IF ~moderate THEN
            /\ last' = Said("enable", g, server.id, moderate, <<"error_no_permission">>, server.type)
            /\ UNCHANGED <<mute_sources, cached_guild_name>>
       ELSE IF server.type = "str" THEN
            /\ last' = Said("enable", g, 0, moderate, <<"error_not_found">>, server.type)
            /\ UNCHANGED <<mute_sources, cached_guild_name>>
       ELSE IF is_this_guild(server, g) THEN
            /\ last' = Said("enable", g, server.id, moderate, <<"error_this_server">>, server.type)
            /\ UNCHANGED <<mute_sources, cached_guild_name>>
       ELSE IF server.id \in Range(mute_sources[g]) THEN
            /\ cached_guild_name' = names_refreshed(cached_guild_name, g, server.id)
            /\ last' = Said("enable", g, server.id, moderate, <<"success_already">>, server.type)
            /\ UNCHANGED mute_sources
       ELSE IF ~confirmed(answer) THEN
            /\ last' = Said("enable", g, server.id, moderate, <<"question", "info_cancelled">>, server.type)
            /\ UNCHANGED <<mute_sources, cached_guild_name>>
       ELSE
            /\ cached_guild_name' = [cached_guild_name EXCEPT
                                        ![g] = guild_name[g],
                                        ![server.id] = guild_name[server.id]]
            /\ mute_sources' = [mute_sources EXCEPT ![g] = Append(@, server.id)]
            /\ last' = Said("enable", g, server.id, moderate, <<"question", "success_added">>, server.type)
    /\ UNCHANGED <<mute_count, mute_cache, guild_name, timed_out_until>>
    /\ UNCHANGED <<log_vars, policy_vars, prop_vars>>
    /\ UNCHANGED more_vars

\* (a faulty name lookup that ignores case)
Lower(text) == IF text = "ALPHA" THEN "alpha" ELSE text
NameMatchesAnyCase(text) ==
    {d \in all_guilds(cached_guild_name) : Lower(cached_guild_name[d]) = Lower(text)}

\* the name lookup of disable: the guilds with a record whose cached name is the text
NameMatches(text) == {d \in all_guilds(cached_guild_name) : cached_guild_name[d] = text}

\* str(server) of an argument that is not a guild
ArgText(server) == IF server.type = "int" THEN "" ELSE server.text

\* the ids `server_id` may end up with in disable (0: None); the name lookup takes
\* the first match in the order of the stored records
ResolvedIds(g, server) ==
    IF server.type = "Guild" THEN {server.id}
    ELSE IF ~(server.type = "int" /\ server.id \in Range(mute_sources[g]))
    THEN (IF NameMatches(ArgText(server)) # {} THEN NameMatches(ArgText(server)) ELSE {0})
    ELSE {server.id}

\* [p]mutesync disable <server>, run in guild g
disable(g, server) ==
    /\ n_steps < MaxSteps
    /\ n_steps' = n_steps + 1
    /\ \E server_id \in ResolvedIds(g, server) :
        IF server_id = 0 THEN
            /\ last' = Said("disable", g, 0, TRUE, <<"error_not_found">>, server.type)
            /\ UNCHANGED mute_sources
        ELSE IF server_id \in Range(mute_sources[g]) THEN
            /\ mute_sources' = [mute_sources EXCEPT ![g] = ListRemove(@, server_id)]
            /\ last' = Said("disable", g, server_id, TRUE, <<"success_removed">>, server.type)
        ELSE
            /\ last' = Said("disable", g, server_id, TRUE, <<"info_not_pulling">>, server.type)
            /\ UNCHANGED mute_sources
    /\ UNCHANGED <<mute_count, cached_guild_name, mute_cache, guild_name, timed_out_until>>
    /\ UNCHANGED <<log_vars, policy_vars, prop_vars>>
    /\ UNCHANGED more_vars

----------------------------------------------------------------------------
\* MuteSync listener

\* async with config.guild(dest).mute_count() as mute_count: ... += 1
\* The stored dict has text keys (settings() looks counts up by str(id)); the
\* handler looks the count up and writes it under the integer id, and saving
\* turns that key into text again, the later entry replacing the earlier one.
mute_count_increment(stored, source) ==
    LET loaded  == {<<"str", k>> : k \in DOMAIN stored}
        present == <<"int", source>> \in loaded
        written == IF present THEN stored[source] + 1 ELSE 0 + 1
    IN  [k \in DOMAIN stored \cup {source} |-> IF k = source THEN written ELSE stored[k]]

\* the guild of the member object the handler edits: `user`, the member of the
\* guild the update came from
edited_member_guild(source, dest) == source

\* (a faulty loop that takes every other guild with a record for a destination)
every_other_guild(source, names) == {d \in all_guilds(names) : d # source}

\* the guilds whose record lists `source` in mute_sources, the guild itself left out
pullers(source, names) ==
    {d \in all_guilds(names) : d # source /\ source \in Range(mute_sources[d])}

\* (a faulty loop check that never finds the state in the cache)
never_muted(cache, dest, user, mute) == FALSE

\* the loop check: mute_cache already holds `mute` for (dest, user)
already_muted(cache, dest, user, mute) ==
    /\ dest \in DOMAIN cache
    /\ user \in DOMAIN cache[dest]
    /\ cache[dest][user] = mute

\* (a faulty loop that does not look at the destination guild: every guild that
\* pulls and whose state the cache does not hold gets an edit)
destinations_unchecked(source, user, mute, cache, names, status) ==
    {d \in pullers(source, names) : ~already_muted(cache, d, user, mute)}

\* the destinations of one _handle_mute_unmute(source, user, mute) that get an edit
destinations(source, user, mute, cache, names, status) ==
    {d \in pullers(source, names) :
        /\ status[d] # "unreachable"
        /\ status[d] # "no_perm"
        /\ ~already_muted(cache, d, user, mute)}

\* (a faulty loop that a failed edit ends: only the destinations up to the first
\* failure, in the order of their ids, are reached)
reached_until_failure(dests, ok) ==
    {d \in dests : \A e \in dests : (e < d) => ok[e]}

\* with suppress(NotFound, Forbidden, HTTPException): a failed edit ends that
\* destination's turn only, the loop reaches every destination
reached(dests, ok) == dests

\* self.mute_cache[g][user] = mute
cache_put(cache, g, user, mute) ==
    LET inner == IF g \in DOMAIN cache THEN cache[g] ELSE EmptyDict
    IN  [k \in DOMAIN cache \cup {g} |->
            IF k = g THEN [x \in DOMAIN inner \cup {user} |->
                              IF x = user THEN mute ELSE inner[x]]
            ELSE cache[k]]

\* (a faulty check that handles every member update)
always_changed(before, after) == FALSE

\* before.timed_out_until == after.timed_out_until: no change in mute status
no_change(before, after) == before = after

\* on_member_update(before, after) for member `user` of guild g, whose timeout the
\* host now reports as `after`.  Inputs: status[d], how the handler finds each
\* guild d that pulls from g; ok[d], whether the edit made for destination d
\* succeeds; now, the handler's clock plus ten minutes (read when an edit sets a
\* timeout).
on_member_update(g, user, after) ==
    /\ n_steps < MaxSteps
    /\ n_steps' = n_steps + 1
    /\ LET before == timed_out_until[g][user]
           mute   == after # NoTimeout
           cache  == cache_put(mute_cache, g, user, mute)
           names  == [cached_guild_name EXCEPT ![g] = guild_name[g]]
       IN
       /\ timed_out_until' = [timed_out_until EXCEPT ![g][user] = after]
       /\ IF no_change(before, after) THEN
              /\ last' = [kind |-> "member_update", guild |-> g, user |-> user,
                          before |-> before, after |-> after, handled |-> FALSE,
                          status |-> EmptyDict, calls |-> {}]
              /\ UNCHANGED <<mute_cache, cached_guild_name, mute_count>>
          ELSE
              \E status \in [pullers(g, names) -> GuildStatuses] :
              \E ok \in [destinations(g, user, mute, cache, names, status) -> BOOLEAN],
                 now \in (IF mute /\ destinations(g, user, mute, cache, names, status) # {}
                          THEN Times ELSE {NoTimeout}) :
              LET dests == destinations(g, user, mute, cache, names, status) IN
              /\ mute_cache' = cache
              /\ cached_guild_name' = names
              /\ mute_count' = [d \in Guilds |->
                                  IF d \in reached(dests, ok) /\ mute /\ ok[d]
                                  THEN mute_count_increment(mute_count[d], g)
                                  ELSE mute_count[d]]
              /\ last' =
                    [kind |-> "member_update", guild |-> g, user |-> user,
                     before |-> before, after |-> after, handled |-> TRUE,
                     status |-> status,
                     calls |-> {[dest |-> d, guild |-> edited_member_guild(g, d),
                                 user |-> user, timeout |-> now, ok |-> ok[d]]
                                : d \in reached(dests, ok)}]
    /\ UNCHANGED <<mute_sources, guild_name>>
    /\ UNCHANGED <<log_vars, policy_vars, prop_vars>>
    /\ UNCHANGED more_vars

----------------------------------------------------------------------------
\* The host: a guild is renamed
RenameGuild(g, n) ==
    /\ n_steps < MaxSteps
    /\ n_steps' = n_steps + 1
    /\ guild_name[g] # n
    /\ guild_name' = [guild_name EXCEPT ![g] = n]
    /\ UNCHANGED <<mute_sources, mute_count, cached_guild_name, mute_cache,
                   timed_out_until, last>>
    /\ UNCHANGED <<log_vars, policy_vars, prop_vars>>
    /\ UNCHANGED more_vars

\* MuteSync as loaded: no guild has a record, the cache is empty
InitMuteSync ==
    /\ mute_sources = [g \in Guilds |-> DefaultMuteSources]
    /\ mute_count = [g \in Guilds |-> DefaultMuteCount]
    /\ cached_guild_name = [g \in Guilds |-> DefaultGuildName]
    /\ mute_cache = EmptyDict
    /\ timed_out_until = [g \in Guilds |-> [u \in Users |-> NoTimeout]]
    /\ last = Nothing
    /\ guild_name = [g \in Guilds |-> "alpha"]
    /\ n_steps = 0

----------------------------------------------------------------------------
\* GameInviteControl: the invite log of one guild

\* "max_log_size" of default_guild; no command changes it
DefaultMaxLogSize == 50
\* view_log: entries = min(entries, 25)
MaxViewEntries == 25
\* the default of the `entries` argument of view_log
DefaultViewEntries == 10

\* the minutes a timestamp can name ("%Y-%m-%d %H:%M UTC"), in the order of time
Minutes == {1, 2}
InviteUsers == {42}
\* the values of `entries` the log is asked for
ViewSizes == {-1, 1, DefaultViewEntries, MaxViewEntries + 1, DefaultMaxLogSize}

Min(a, b) == IF a <= b THEN a ELSE b
Max(a, b) == IF a >= b THEN a ELSE b

\* s[:n]
SlicePrefix(s, n) ==
    IF n >= 0 THEN SubSeq(s, 1, Min(n, Len(s)))
    ELSE SubSeq(s, 1, Max(Len(s) + n, 0))

\* the entry on_presence_update builds (the game, party and application id
\* are left out)
log_entry(user, minute) == [user_id |-> user, timestamp |-> minute]

\* (a faulty append that keeps one entry more than max_size)
append_log_keep_one_more(log, max_size, entry) ==
    SlicePrefix(<<entry>> \o log, max_size + 1)

\* (a faulty append that adds the entry at the end and drops from the end)
append_log_at_end(log, max_size, entry) ==
    SlicePrefix(log \o <<entry>>, max_size)

\* _append_log: log.insert(0, entry); if len(log) > max_size: del log[max_size:]
append_log(log, max_size, entry) ==
    LET inserted == <<entry>> \o log
    IN  IF Len(inserted) > max_size THEN SlicePrefix(inserted, max_size)
        ELSE inserted

\* (a faulty view that shows one entry less than asked for)
view_one_less(log, entries) == SlicePrefix(log, Max(Min(entries, MaxViewEntries) - 1, 0))

\* view_log: the entries shown, one embed field each
view_recent(log, entries) == SlicePrefix(log, Min(entries, MaxViewEntries))

\* [p]gameinvite enable
enable_control ==
    /\ gi_enabled' = TRUE
    /\ viewed' = Nothing
    /\ UNCHANGED <<invite_log, clock, n_clock, appended>>
    /\ UNCHANGED <<mutesync_vars, policy_vars, prop_vars>>
    /\ UNCHANGED more_vars

\* on_presence_update for a member of the guild who is not a bot and now shows an
\* invite-capable activity.  tracked_games, log_channel and delete_invites have
\* their defaults (no command of the model changes them): every game passes,
\* nothing is posted and nothing is deleted.
on_presence_update(user) ==
    /\ gi_enabled
    /\ Len(appended) < DefaultMaxLogSize + MaxExtra
    /\ LET entry == log_entry(user, clock) IN
        /\ invite_log' = append_log(invite_log, DefaultMaxLogSize, entry)
        /\ appended' = Append(appended, entry)
    /\ viewed' = Nothing
    /\ UNCHANGED <<gi_enabled, clock, n_clock>>
    /\ UNCHANGED <<mutesync_vars, policy_vars, prop_vars>>
    /\ UNCHANGED more_vars

\* [p]gameinvite log [entries]
view_log(entries) ==
    /\ viewed' = [kind |-> "view_log", entries |-> entries,
                  log_before |-> invite_log,
                  reply |-> IF invite_log = <<>> THEN "empty" ELSE "embed",
                  shown |-> IF invite_log = <<>> THEN <<>>
                            ELSE view_recent(invite_log, entries)]
    /\ UNCHANGED <<gi_enabled, invite_log, clock, n_clock, appended>>
    /\ UNCHANGED <<mutesync_vars, policy_vars, prop_vars>>
    /\ UNCHANGED more_vars

\* [p]gameinvite clearlog
clear_log ==
    /\ invite_log' = <<>>
    /\ appended' = <<>>
    /\ viewed' = Nothing
    /\ UNCHANGED <<gi_enabled, clock, n_clock>>
    /\ UNCHANGED <<mutesync_vars, policy_vars, prop_vars>>
    /\ UNCHANGED more_vars

\* The host: the clock moves to another minute, forward or (set back) backward
ClockChange(m) ==
    /\ n_clock < MaxClockChanges
    /\ m # clock
    /\ clock' = m
    /\ n_clock' = n_clock + 1
    /\ UNCHANGED <<gi_enabled, invite_log, appended, viewed>>
    /\ UNCHANGED <<mutesync_vars, policy_vars, prop_vars>>
    /\ UNCHANGED more_vars

IdleLog ==
    /\ gi_enabled = FALSE
    /\ invite_log = <<>>
    /\ clock = 1
    /\ n_clock = 0
    /\ appended = <<>>
    /\ viewed = Nothing

IdlePolicy ==
    /\ pol_input = Nothing
    /\ pol_result = Nothing

IdleProp ==
    /\ events = <<>>
    /\ tasks = {}
    /\ n_external = 0

IdleCmd == waiting = {}

\* default_guild of GameInviteControl, for each of the two guilds
LogGuilds == {1, 2}
DefaultPresenceCfg ==
    [enabled |-> FALSE, tracked_games |-> <<>>, log_channel |-> 0,
     delete_invites |-> FALSE, max_log_size |-> DefaultMaxLogSize]

IdlePresence ==
    /\ presence_cfg = [g \in LogGuilds |-> DefaultPresenceCfg]
    /\ presence_log = [g \in LogGuilds |-> <<>>]
    /\ presence_runs = {}

\* default_guild of StickerControl
DefaultStickerCfg ==
    [mode |-> "blacklist", channels |-> <<>>, categories |-> <<>>,
     enabled |-> FALSE, log_channel |-> 0]

IdleSticker == sticker_cfg = DefaultStickerCfg

IdleMore == IdleCmd /\ IdlePresence /\ IdleSticker

\* GameInviteControl with the defaults of default_guild and nothing logged
InitLog ==
    /\ gi_enabled = FALSE
    /\ invite_log = <<>>
    /\ clock \in Minutes
    /\ n_clock = 0
    /\ appended = <<>>
    /\ viewed = Nothing
    /\ InitMuteSync
    /\ IdlePolicy
    /\ IdleProp
    /\ IdleMore

NextLog ==
    \/ enable_control
    \/ \E u \in InviteUsers : on_presence_update(u)
    \/ \E n \in ViewSizes : view_log(n)
    \/ clear_log
    \/ \E m \in Minutes : ClockChange(m)

LogSpec == InitLog /\ [][NextLog]_vars

----------------------------------------------------------------------------
\* The inclusion policy evaluators of GameInviteControl and StickerControl

Modes == {"blacklist", "whitelist"}
ListedIds == {10, 11}           \* channel ids a list can hold
ListedCategoryIds == {20, 21}   \* category ids a list can hold
ChannelIds == {10, 12}          \* the id of the channel judged
CategoryIds == {0, 20, 22}      \* its category_id; 0: None, no parent category

ListsOf(S) == UNION {[1..k -> S] : k \in 0..MaxListLen}

\* a guild channel: its category is the category its category_id names, None
\* (0) when it has none
Channel(id, category_id) ==
    [id |-> id, category_id |-> category_id, category |-> category_id]

PolicyInputs ==
    {[channel |-> Channel(id, cat),
      cfg |-> [mode |-> m, channels |-> chs, categories |-> cats]] :
        id \in ChannelIds, cat \in CategoryIds, m \in Modes,
        chs \in ListsOf(ListedIds), cats \in ListsOf(ListedCategoryIds)}

\* (a faulty evaluator that looks at the channel list only)
should_block_by_channel_only(channel, cfg) ==
    LET in_list == channel.id \in Range(cfg.channels)
    IN  IF cfg.mode = "blacklist" THEN in_list ELSE ~in_list

\* GameInviteControl._should_block_in_channel
should_block_in_channel(channel, cfg) ==
    LET channel_in_list  == channel.id \in Range(cfg.channels)
        category_in_list == IF channel.category_id # 0
                            THEN channel.category_id \in Range(cfg.categories)
                            ELSE FALSE
        in_list == channel_in_list \/ category_in_list
    IN  IF cfg.mode = "blacklist" THEN in_list ELSE ~in_list

\* (a faulty evaluator that blocks what is listed, whatever the mode)
should_block_listed(channel, guild_config) ==
    \/ channel.id \in Range(guild_config.channels)
    \/ (channel.category # 0 /\ channel.category \in Range(guild_config.categories))

\* StickerControl._should_block_sticker
should_block_sticker(channel, guild_config) ==
    LET channel_in_list  == channel.id \in Range(guild_config.channels)
        category_in_list == IF channel.category # 0
                            THEN channel.category \in Range(guild_config.categories)
                            ELSE FALSE
        in_list == channel_in_list \/ category_in_list
    IN  IF guild_config.mode = "blacklist" THEN in_list ELSE ~in_list

\* the two cogs judge the channel under the configuration
evaluate ==
    /\ pol_result = Nothing
    /\ pol_result' =
          [kind |-> "verdict",
           invite  |-> should_block_in_channel(pol_input.channel, pol_input.cfg),
           sticker |-> should_block_sticker(pol_input.channel, pol_input.cfg)]
    /\ UNCHANGED pol_input
    /\ UNCHANGED <<mutesync_vars, log_vars, prop_vars>>
    /\ UNCHANGED more_vars

InitPolicy ==
    /\ pol_input \in PolicyInputs
    /\ pol_result = Nothing
    /\ InitMuteSync
    /\ IdleLog
    /\ IdleProp
    /\ IdleMore

NextPolicy == evaluate

PolicySpec == InitPolicy /\ [][NextPolicy]_vars

----------------------------------------------------------------------------
\* MuteSync as loaded, the other cogs left alone
Init ==
    /\ InitMuteSync
    /\ IdleLog
    /\ IdlePolicy
    /\ IdleProp
    /\ IdleMore

Next ==
    \/ \E g \in Guilds, server \in EnableArgs, moderate \in BOOLEAN :
          \E answer \in (IF asks(g, server, moderate) THEN Answers ELSE {"none"}) :
            enable(g, server, moderate, answer)
    \/ \E g \in Guilds, server \in DisableArgs : disable(g, server)
    \/ \E g \in Guilds, u \in Users, after \in TimedOutValues :
            on_member_update(g, u, after)
    \/ \E g \in Guilds, n \in Names : RenameGuild(g, n)

\* MuteSync
Spec == Init /\ [][Next]_vars

----------------------------------------------------------------------------
\* MuteSync, one step at a time.  The host sends a member update for every change
\* of a member's timeout, a moderator's or the bot's own; the bot handles the
\* updates in the order they came, and a run of _handle_mute_unmute gives way to
\* other runs at each await.  Every guild is reachable here and the bot may time
\* members out in it.

\* pull graphs made with enable: one edge, a mutual pair, a fan-out, a fan-in and
\* a cycle of three
PropGraphs ==
    { <<<<>>, <<1>>, <<>>>>,
      <<<<2>>, <<1>>, <<>>>>,
      <<<<>>, <<1>>, <<1>>>>,
      <<<<>>, <<>>, <<1, 2>>>>,
      <<<<3>>, <<1>>, <<2>>>> }

\* the guilds enable has written a record for: both ends of every edge
InGraph(graph, g) ==
    graph[g] # <<>> \/ \E d \in Guilds : g \in Range(graph[d])

TaskIds == 1..MaxTasks
FreeIds == TaskIds \ {t.id : t \in tasks}

\* a run that has gone through lines 282-284 and waits at line 287
NewTask(id, g, user, mute) ==
    [id |-> id, guild |-> g, user |-> user, mute |-> mute, pc |-> "names",
     todo |-> {}, dest |-> 0, hangs |-> FALSE, called |-> {}]

\* the run goes on to the next destination, or ends when none is left
Continue(t, todo) ==
    IF todo = {} THEN tasks \ {t}
    ELSE (tasks \ {t}) \cup {[t EXCEPT !.pc = "loop", !.todo = todo, !.dest = 0]}

\* A moderator sets or lifts the timeout of a member of guild g
ExternalChange(g, user, after) ==
    /\ n_external < MaxExternal
    /\ Len(events) < MaxPending
    /\ n_external' = n_external + 1
    /\ events' = Append(events, [guild |-> g, user |-> user, after |-> after])
    /\ UNCHANGED tasks
    /\ UNCHANGED <<mutesync_vars, log_vars, policy_vars>>
    /\ UNCHANGED more_vars

\* on_member_update(before, after) up to the first await of _handle_mute_unmute
Deliver ==
    /\ events # <<>>
    /\ LET e      == Head(events)
           before == timed_out_until[e.guild][e.user]
           mute   == e.after # NoTimeout
       IN
       /\ events' = Tail(events)
       /\ timed_out_until' = [timed_out_until EXCEPT ![e.guild][e.user] = e.after]
       /\ IF no_change(before, e.after) THEN
              UNCHANGED <<tasks, mute_cache>>
          ELSE
              /\ FreeIds # {}
              /\ mute_cache' = cache_put(mute_cache, e.guild, e.user, mute)
              /\ \E id \in FreeIds :
                    /\ \A other \in FreeIds : id <= other
                    /\ tasks' = tasks \cup {NewTask(id, e.guild, e.user, mute)}
    /\ UNCHANGED <<mute_sources, mute_count, cached_guild_name, guild_name, last,
                   n_steps, n_external>>
    /\ UNCHANGED <<log_vars, policy_vars>>
    /\ UNCHANGED more_vars

\* lines 287-289: the run saves the name of its guild and reads all_guilds()
SaveName(t) ==
    /\ t \in tasks /\ t.pc = "names"
    /\ cached_guild_name' = [cached_guild_name EXCEPT ![t.guild] = guild_name[t.guild]]
    /\ tasks' = Continue(t, pullers(t.guild, cached_guild_name'))
    /\ UNCHANGED <<mute_sources, mute_count, mute_cache, guild_name, timed_out_until,
                   last, n_steps, events, n_external>>
    /\ UNCHANGED <<log_vars, policy_vars>>
    /\ UNCHANGED more_vars

\* lines 290-313: the run takes destination d, skips it when the cache holds the
\* state, and otherwise starts the edit; `hangs`: the edit will never return
CheckDest(t, d) ==
    /\ t \in tasks /\ t.pc = "loop" /\ d \in t.todo
    /\ IF already_muted(mute_cache, d, t.user, t.mute) THEN
            tasks' = Continue(t, t.todo \ {d})
       ELSE
            \E hangs \in BOOLEAN :
                tasks' = (tasks \ {t}) \cup
                         {[t EXCEPT !.pc = "edit", !.dest = d, !.hangs = hangs,
                                    !.called = @ \cup {d}]}
    /\ UNCHANGED <<mute_sources, mute_count, cached_guild_name, mute_cache, guild_name,
                   timed_out_until, last, n_steps, events, n_external>>
    /\ UNCHANGED <<log_vars, policy_vars>>
    /\ UNCHANGED more_vars

\* lines 313-321: the edit returns.  A successful edit changed the member it was
\* made on, and the host sends the member update of that guild; a successful
\* mute is counted.
EditReturns(t, ok, now) ==
    /\ t \in tasks /\ t.pc = "edit" /\ ~t.hangs
    /\ IF ok THEN
            /\ Len(events) < MaxPending
            /\ events' = Append(events,
                                 [guild |-> edited_member_guild(t.guild, t.dest),
                                  user |-> t.user, after |-> now])
       ELSE UNCHANGED events
    /\ mute_count' = IF ok /\ t.mute
                     THEN [mute_count EXCEPT
                             ![t.dest] = mute_count_increment(@, t.guild)]
                     ELSE mute_count
    /\ tasks' = Continue(t, t.todo \ {t.dest})
    /\ UNCHANGED <<mute_sources, cached_guild_name, mute_cache, guild_name,
                   timed_out_until, last, n_steps, n_external>>
    /\ UNCHANGED <<log_vars, policy_vars>>
    /\ UNCHANGED more_vars

InitProp ==
    /\ mute_sources \in PropGraphs
    /\ mute_count = [g \in Guilds |-> DefaultMuteCount]
    /\ cached_guild_name = [g \in Guilds |->
                              IF InGraph(mute_sources, g) THEN "alpha"
                              ELSE DefaultGuildName]
    /\ mute_cache = EmptyDict
    /\ timed_out_until = [g \in Guilds |-> [u \in Users |-> NoTimeout]]
    /\ guild_name = [g \in Guilds |-> "alpha"]
    /\ last = Nothing
    /\ n_steps = 0
    /\ IdleProp
    /\ IdleLog
    /\ IdlePolicy
    /\ IdleMore

NextProp ==
    \/ \E g \in Guilds, u \in Users, after \in TimedOutValues :
          ExternalChange(g, u, after)
    \/ Deliver
    \/ \E t \in tasks : SaveName(t)
    \/ \E t \in tasks, d \in Guilds : CheckDest(t, d)
    \/ \E t \in tasks, ok \in BOOLEAN :
          \E now \in (IF t.mute THEN Times ELSE {NoTimeout}) : EditReturns(t, ok, now)

PropSpec == InitProp /\ [][NextProp]_vars

\* the event loop runs every handler that can run, and an edit that does not hang
\* returns
FairPropSpec ==
    /\ InitProp /\ [][NextProp]_vars
    /\ WF_vars(Deliver)
    /\ WF_vars(\E t \in tasks : SaveName(t))
    /\ WF_vars(\E t \in tasks, d \in Guilds : CheckDest(t, d))
    /\ WF_vars(\E t \in tasks, ok \in BOOLEAN :
                 \E now \in (IF t.mute THEN Times ELSE {NoTimeout}) :
                    EditReturns(t, ok, now))

----------------------------------------------------------------------------
\* The MuteSync commands, one step at a time.  enable reads the guild's
\* mute_sources (line 185), waits up to 30 seconds for the confirmation (line
\* 208) and then writes the list it read, with the server appended (lines
\* 219-220); other commands run during the wait.

WaitIds == 1..MaxWaiting
FreeWaitIds == WaitIds \ {c.id : c \in waiting}

\* lines 160-206: enable passes its checks, has read mute_sources and asks
enable_asks(g, server, moderate) ==
    /\ n_steps < MaxSteps
    /\ asks(g, server, moderate)
    /\ FreeWaitIds # {}
    /\ n_steps' = n_steps + 1
    /\ \E id \in FreeWaitIds :
          /\ \A other \in FreeWaitIds : id <= other
          /\ waiting' = waiting \cup
                {[id |-> id, guild |-> g, server |-> server,
                  mute_sources |-> mute_sources[g]]}
    /\ UNCHANGED <<mute_sources, mute_count, cached_guild_name, mute_cache, guild_name,
                   timed_out_until, last>>
    /\ UNCHANGED <<log_vars, policy_vars, prop_vars, presence_vars, sticker_vars>>

\* lines 207-225: the wait of command c ends with `answer`
enable_answered(c, answer) ==
    /\ c \in waiting
    /\ waiting' = waiting \ {c}
    /\ IF ~confirmed(answer) THEN
            /\ last' = Said("enable", c.guild, c.server.id, TRUE,
                            <<"question", "info_cancelled">>, c.server.type)
            /\ UNCHANGED <<mute_sources, cached_guild_name>>
       ELSE
            /\ cached_guild_name' = [cached_guild_name EXCEPT
                                        ![c.guild] = guild_name[c.guild],
                                        ![c.server.id] = guild_name[c.server.id]]
            /\ mute_sources' = [mute_sources EXCEPT
                                  ![c.guild] = Append(c.mute_sources, c.server.id)]
            /\ last' = Said("enable", c.guild, c.server.id, TRUE,
                            <<"question", "success_added">>, c.server.type)
    /\ UNCHANGED <<mute_count, mute_cache, guild_name, timed_out_until, n_steps>>
    /\ UNCHANGED <<log_vars, policy_vars, prop_vars, presence_vars, sticker_vars>>

InitCmd == Init

NextCmd ==
    \/ \E g \in Guilds, server \in EnableArgs : enable_asks(g, server, TRUE)
    \/ \E c \in waiting, answer \in Answers : enable_answered(c, answer)
    \/ \E g \in Guilds, server \in DisableArgs : disable(g, server)

CmdSpec == InitCmd /\ [][NextCmd]_vars

----------------------------------------------------------------------------
\* GameInviteControl, one step at a time, in two guilds.  A run of
\* on_presence_update reads the guild's configuration (line 435), appends to the
\* log inside `async with self.config.guild(guild).invite_log() as log` (lines
\* 524-528), which holds the lock of that value from the read to the write, and
\* then posts and deletes.

\* str(application_id or ""): no application id, a tracked one, another one
AppIds == {"", "111", "222"}
\* the application ids in tracked_games
TrackedIds == {"111"}
\* log_channel: a channel id, or 0 for None
LogChannels == {0, 30}

RunIds == 1..MaxRuns
FreeRunIds == RunIds \ {r.id : r \in presence_runs}

\* the configurations the commands of a guild lead to: monitoring on or off
\* (enable, disable), games tracked or not (games add, games clear), a log
\* channel or none (logchannel), deletion on or off (deleteinvites)
PresenceCfgs ==
    {[enabled |-> e, tracked_games |-> t, log_channel |-> c, delete_invites |-> d,
      max_log_size |-> DefaultMaxLogSize] :
        e \in BOOLEAN, t \in {<<>>} \cup {<<a>> : a \in TrackedIds},
        c \in LogChannels, d \in BOOLEAN}

\* (a faulty filter that lets every game pass)
every_game_tracked(tracked_games, app_id) == TRUE

\* the optional game filter: an empty list tracks every game
is_tracked(tracked_games, app_id) ==
    IF tracked_games # <<>> THEN app_id \in Range(tracked_games) ELSE TRUE

\* the record of a presence update: the member, the application id of the
\* invite-capable activity, the configuration read, and whether the update got as
\* far as the log
Seen(g, user, bot, app_id, cfg, passed) ==
    [kind |-> "presence", guild |-> g, user |-> user, bot |-> bot, app |-> app_id,
     cfg |-> cfg, passed |-> passed]

\* lines 430-453: on_presence_update for member `user` of guild g, who now shows
\* an invite-capable activity of application app_id, up to _append_log
presence_update(g, user, bot, app_id) ==
    /\ n_steps < MaxPresence
    /\ n_steps' = n_steps + 1
    /\ LET cfg    == presence_cfg[g]
           passed == ~bot /\ cfg.enabled /\ is_tracked(cfg.tracked_games, app_id)
       IN
       /\ last' = Seen(g, user, bot, app_id, cfg, passed)
       /\ IF passed THEN
              /\ FreeRunIds # {}
              /\ \E id \in FreeRunIds :
                    /\ \A other \in FreeRunIds : id <= other
                    /\ presence_runs' = presence_runs \cup
                          {[id |-> id, guild |-> g, cfg |-> cfg,
                            invite_log |-> presence_log[g],
                            entry |-> log_entry(user, clock),
                            pc |-> "enter", log |-> <<>>]}
          ELSE UNCHANGED presence_runs
    /\ UNCHANGED <<presence_cfg, presence_log>>
    /\ UNCHANGED <<mute_sources, mute_count, cached_guild_name, mute_cache, guild_name,
                   timed_out_until>>
    /\ UNCHANGED <<log_vars, policy_vars, prop_vars, cmd_vars, sticker_vars>>

\* (a faulty lock that is always free)
always_free(runs, g) == TRUE

\* the lock of guild g's invite_log value: free when no run is inside the
\* `async with` block
lock_free(runs, g) == \A r \in runs : ~(r.guild = g /\ r.pc = "inside")

\* line 524, entering the block: the run takes the lock and reads the log
append_log_enter(r) ==
    /\ r \in presence_runs /\ r.pc = "enter"
    /\ lock_free(presence_runs, r.guild)
    /\ presence_runs' = (presence_runs \ {r}) \cup
          {[r EXCEPT !.pc = "inside", !.log = presence_log[r.guild]]}
    /\ UNCHANGED <<presence_cfg, presence_log>>
    /\ UNCHANGED <<mutesync_vars, log_vars, policy_vars, prop_vars, cmd_vars, sticker_vars>>

\* lines 525-528, leaving the block: the changed list is stored, the lock is
\* given back
append_log_exit(r) ==
    /\ r \in presence_runs /\ r.pc = "inside"
    /\ presence_log' = [presence_log EXCEPT
                           ![r.guild] = append_log(r.log, r.cfg.max_log_size, r.entry)]
    /\ presence_runs' = (presence_runs \ {r}) \cup {[r EXCEPT !.pc = "post", !.log = <<>>]}
    /\ UNCHANGED presence_cfg
    /\ UNCHANGED <<mutesync_vars, log_vars, policy_vars, prop_vars, cmd_vars, sticker_vars>>

\* lines 470-486: the embed is posted when the configuration read names a log
\* channel and the guild has it (`exists`); invite messages are deleted when
\* delete_invites was on and a blocked channel holds one (`found`)
post_and_delete(r, exists, found) ==
    /\ r \in presence_runs /\ r.pc = "post"
    /\ presence_runs' = presence_runs \ {r}
    /\ last' = [kind |-> "presence_done", guild |-> r.guild, entry |-> r.entry,
                posted |-> (r.cfg.log_channel # 0 /\ exists),
                deleted |-> (r.cfg.delete_invites /\ found)]
    /\ UNCHANGED <<presence_cfg, presence_log>>
    /\ UNCHANGED <<mute_sources, mute_count, cached_guild_name, mute_cache, guild_name,
                   timed_out_until, n_steps>>
    /\ UNCHANGED <<log_vars, policy_vars, prop_vars, cmd_vars, sticker_vars>>

\* the first guild as its commands have configured it, the second with
\* monitoring on and the defaults otherwise; nothing logged, no run under way
InitPresence ==
    /\ presence_cfg \in [LogGuilds -> PresenceCfgs]
    /\ presence_cfg[2] = [DefaultPresenceCfg EXCEPT !.enabled = TRUE]
    /\ presence_log = [g \in LogGuilds |-> <<>>]
    /\ presence_runs = {}
    /\ InitMuteSync
    /\ IdleLog
    /\ IdlePolicy
    /\ IdleProp
    /\ IdleCmd
    /\ IdleSticker

NextPresence ==
    \/ \E g \in LogGuilds, user \in InviteUsers, bot \in BOOLEAN, app_id \in AppIds :
          presence_update(g, user, bot, app_id)
    \/ \E r \in presence_runs : append_log_enter(r)
    \/ \E r \in presence_runs : append_log_exit(r)
    \/ \E r \in presence_runs, exists \in BOOLEAN, found \in BOOLEAN :
          post_and_delete(r, exists, found)

PresenceSpec == InitPresence /\ [][NextPresence]_vars

----------------------------------------------------------------------------
\* StickerControl in one guild

\* (a faulty bypass: nobody is exempt)
nobody_bypasses(manage_messages) == FALSE

\* message.author.guild_permissions.manage_messages: the author is exempt
bypasses(manage_messages) == manage_messages

\* [p]stickercontrol enable / disable
sticker_set_enabled(value) ==
    /\ sticker_cfg' = [sticker_cfg EXCEPT !.enabled = value]
    /\ last' = Nothing
    /\ UNCHANGED <<mute_sources, mute_count, cached_guild_name, mute_cache, guild_name,
                   timed_out_until, n_steps>>
    /\ UNCHANGED <<log_vars, policy_vars, prop_vars, cmd_vars, presence_vars>>

\* [p]stickercontrol logchannel [channel]; 0: None, the log channel is cleared
sticker_set_log_channel(channel) ==
    /\ sticker_cfg' = [sticker_cfg EXCEPT !.log_channel = channel]
    /\ last' = Nothing
    /\ UNCHANGED <<mute_sources, mute_count, cached_guild_name, mute_cache, guild_name,
                   timed_out_until, n_steps>>
    /\ UNCHANGED <<log_vars, policy_vars, prop_vars, cmd_vars, presence_vars>>

\* on_message(message).  Inputs: in_guild, message.guild is a guild; author_bot;
\* stickers, the message carries a sticker; manage_messages, the author's
\* permission; channel, message.channel; delete_ok and warn_ok, whether
\* message.delete() and the warning sent to the channel succeed (they raise
\* Forbidden or HTTPException otherwise); exists, whether the guild has the
\* channel log_channel names.  An input that plays no part (the permission
\* of the author of a message without sticker, the outcome of a deletion that is
\* not tried, the log channel when nothing is deleted or none is named) is FALSE.
on_message(in_guild, author_bot, stickers, manage_messages, channel, delete_ok, warn_ok, exists) ==
    LET guild_config == sticker_cfg
        heard(deleted, warned, logged) ==
            [kind |-> "message", in_guild |-> in_guild, author_bot |-> author_bot,
             stickers |-> stickers, manage_messages |-> manage_messages,
             channel |-> channel, cfg |-> guild_config,
             delete_ok |-> delete_ok, warn_ok |-> warn_ok, exists |-> exists,
             deleted |-> deleted, warned |-> warned, logged |-> logged]
        asked   == in_guild /\ ~author_bot /\ stickers /\ guild_config.enabled
                     /\ ~bypasses(manage_messages)
        blocked == asked /\ should_block_sticker(channel, guild_config)
    IN
    /\ ~in_guild => ~author_bot
    /\ (~in_guild \/ author_bot) => ~stickers
    /\ (~stickers \/ ~guild_config.enabled) => ~manage_messages
    /\ ~blocked => ~delete_ok
    /\ ~delete_ok => ~warn_ok
    /\ (~delete_ok \/ guild_config.log_channel = 0) => ~exists
    /\ IF ~in_guild \/ author_bot THEN last' = heard(FALSE, FALSE, FALSE)
       ELSE IF ~stickers THEN last' = heard(FALSE, FALSE, FALSE)
       ELSE IF ~guild_config.enabled THEN last' = heard(FALSE, FALSE, FALSE)
       ELSE IF bypasses(manage_messages) THEN last' = heard(FALSE, FALSE, FALSE)
       ELSE IF ~should_block_sticker(channel, guild_config)
            THEN last' = heard(FALSE, FALSE, FALSE)
       ELSE IF ~delete_ok THEN last' = heard(FALSE, FALSE, FALSE)
       ELSE IF ~warn_ok THEN last' = heard(TRUE, FALSE, FALSE)
       ELSE IF guild_config.log_channel # 0 /\ exists
            THEN last' = heard(TRUE, TRUE, TRUE)
       ELSE last' = heard(TRUE, TRUE, FALSE)
    /\ UNCHANGED sticker_cfg
    /\ UNCHANGED <<mute_sources, mute_count, cached_guild_name, mute_cache, guild_name,
                   timed_out_until, n_steps>>
    /\ UNCHANGED <<log_vars, policy_vars, prop_vars, cmd_vars, presence_vars>>

\* the lists addchannel and addcategory lead to: no id twice
StickerLists(S) == {l \in ListsOf(S) : Cardinality(Range(l)) = Len(l)}

\* the guild as mode, addchannel and addcategory have configured it, sticker
\* control off and no log channel
InitSticker ==
    /\ sticker_cfg \in
          {[DefaultStickerCfg EXCEPT !.mode = m, !.channels = chs, !.categories = cats] :
              m \in Modes, chs \in StickerLists(ListedIds),
              cats \in StickerLists(ListedCategoryIds)}
    /\ InitMuteSync
    /\ IdleLog
    /\ IdlePolicy
    /\ IdleProp
    /\ IdleCmd
    /\ IdlePresence

NextSticker ==
    \/ \E value \in BOOLEAN : sticker_set_enabled(value)
    \/ \E channel \in LogChannels : sticker_set_log_channel(channel)
    \/ \E in_guild \in BOOLEAN, author_bot \in BOOLEAN, stickers \in BOOLEAN,
          manage_messages \in BOOLEAN, id \in ChannelIds, cat \in CategoryIds,
          delete_ok \in BOOLEAN, warn_ok \in BOOLEAN, exists \in BOOLEAN :
            on_message(in_guild, author_bot, stickers, manage_messages,
                       Channel(id, cat), delete_ok, warn_ok, exists)

StickerSpec == InitSticker /\ [][NextSticker]_vars

----------------------------------------------------------------------------
\* Properties of MuteSync

\* the step is a command or a member update (a rename changes guild_name)
HandlerStep == n_steps' = n_steps + 1 /\ guild_name' = guild_name

PullsFrom(d, a) == a \in Range(mute_sources[d])

\* the edits the handler made on behalf of destination d, and the edits that
\* were directed at the member of guild g
CallsFor(calls, d) == {c \in calls : c.dest = d}
CallsAt(calls, g) == {c \in calls : c.guild = g}

\* C1: fan-out.  When b and c both pull from a, both are reachable and capable
\* and the cache held nothing before, one member update in a that sets a timeout
\* makes exactly one edit of the member in b, exactly one of the member in c and
\* none of the member in a.
C1_FanOut ==
    \A a \in Guilds, b \in Guilds, c \in Guilds :
        ( /\ a # b /\ a # c /\ b # c
          /\ last.kind = "member_update" /\ last.handled
          /\ last.guild = a /\ last.after \in Times
          /\ PullsFrom(b, a) /\ PullsFrom(c, a)
          /\ last.status[b] = "ok" /\ last.status[c] = "ok"
          /\ DOMAIN mute_cache = {a} )
        => /\ Cardinality(CallsAt(last.calls, b)) = 1
           /\ Cardinality(CallsAt(last.calls, c)) = 1
           /\ CallsAt(last.calls, a) = {}

\* the pull graph is exactly a <-> b
OnlyMutual(a, b) ==
    /\ a # b
    /\ mute_sources[a] = <<b>> /\ mute_sources[b] = <<a>>
    /\ \A c \in Guilds \ {a, b} : mute_sources[c] = <<>>

\* last is a handled member update in guild a that set a timeout
MutedIn(rec, a) ==
    rec.kind = "member_update" /\ rec.handled /\ rec.guild = a /\ rec.after \in Times

NotSkipped(rec, d, a) ==
    /\ d # a /\ PullsFrom(d, a)
    /\ d \in DOMAIN rec.status /\ rec.status[d] = "ok"
    /\ ~( /\ d \in DOMAIN mute_cache
          /\ rec.user \in DOMAIN mute_cache[d]
          /\ mute_cache[d][rec.user] = (rec.after # NoTimeout) )

C4_NoSelfLoop ==
    /\ \A g \in Guilds : g \notin Range(mute_sources[g])
    /\ (last.kind = "enable" /\ last.server = last.guild)
       => /\ last.reply \in {<<"error_this_server">>, <<"error_no_permission">>}
          /\ mute_sources[last.guild] = last.sources_before

C4_Witness ==
    /\ last.kind = "enable" /\ last.server = last.guild
    /\ last.reply = <<"error_this_server">>
    /\ mute_sources[last.guild] # <<>>

NoDuplicates(s) == Cardinality(Range(s)) = Len(s)

\* the original C5: enable for a source already in mute_sources always answers
\* with success and no question, leaves mute_sources alone and saves the
\* server's current name; mute_sources never holds an id twice
C5_Original ==
    /\ \A g \in Guilds : NoDuplicates(mute_sources[g])
    /\ (last.kind = "enable" /\ last.server \in Range(last.sources_before))
       => /\ last.reply = <<"success_already">>
          /\ mute_sources[last.guild] = last.sources_before
          /\ cached_guild_name[last.server] = last.server_name

\* C5 (amended): the same, for an enable run where the bot has the Timeout
\* Members permission
C5_Idempotent ==
    /\ \A g \in Guilds : NoDuplicates(mute_sources[g])
    /\ (last.kind = "enable" /\ last.server \in Range(last.sources_before)
        /\ last.moderate)
       => /\ last.reply = <<"success_already">>
          /\ mute_sources[last.guild] = last.sources_before
          /\ NoDuplicates(mute_sources[last.guild])
          /\ cached_guild_name[last.server] = last.server_name

\* an enable for a source already pulled, whose name had changed since it was saved
C5_Witness ==
    /\ last.kind = "enable" /\ last.reply = <<"success_already">>
    /\ last.server \in Range(mute_sources[last.guild])
    /\ last.server_name = "beta"
    /\ cached_guild_name[last.server] = "beta"

\* C6: round trip.  A confirmed enable of a new source followed by the disable
\* of the same source leaves mute_sources of the guild as it was before the
\* enable, in the same order; no command changes mute_count.
C6_RoundTrip ==
    [][ /\ (HandlerStep /\ last'.kind \in {"enable", "disable"})
           => mute_count' = mute_count
        /\ ( /\ last.kind = "enable" /\ last.reply = <<"question", "success_added">>
             /\ last.server \notin Range(last.sources_before)
             /\ HandlerStep
             /\ last'.kind = "disable" /\ last'.guild = last.guild
             /\ last'.server = last.server )
           => /\ last'.reply = <<"success_removed">>
              /\ mute_sources' = [mute_sources EXCEPT ![last.guild] = last.sources_before]
       ]_vars

\* a state after such a disable, in a guild that pulls from another server and
\* has counted a mute
C6_Witness ==
    /\ last.kind = "disable" /\ last.reply = <<"success_removed">>
    /\ Len(last.sources_before) = 2 /\ last.sources_before[2] = last.server
    /\ mute_sources[last.guild] = <<last.sources_before[1]>>
    /\ mute_count[last.guild] # EmptyDict

\* new is old with the one occurrence of x taken out, the rest in its order
IsRemovalOf(old, new, x) ==
    /\ x \notin Range(new)
    /\ \E i \in 1..Len(old) :
          /\ old[i] = x
          /\ new = SubSeq(old, 1, i - 1) \o SubSeq(old, i + 1, Len(old))

\* C12: remove_edge.  A disable whose argument resolves to a server that is not
\* in the guild's mute_sources answers that nothing was pulled and changes no
\* guild's mute_sources; a disable for a server that is in mute_sources takes
\* out exactly that id; no disable changes mute_count, the cached names, the
\* cache or another guild's mute_sources.
C12_RemoveEdge ==
    [][ (HandlerStep /\ last'.kind = "disable") =>
          LET g   == last'.guild
              id  == last'.server
              old == mute_sources[g]
          IN  /\ mute_count' = mute_count
              /\ cached_guild_name' = cached_guild_name
              /\ mute_cache' = mute_cache
              /\ \A h \in Guilds \ {g} : mute_sources'[h] = mute_sources[h]
              /\ (id # 0 /\ id \notin Range(old)) =>
                    /\ last'.reply = <<"info_not_pulling">>
                    /\ mute_sources' = mute_sources
              /\ (id \in Range(old)) =>
                    /\ last'.reply = <<"success_removed">>
                    /\ IsRemovalOf(old, mute_sources'[g], id)
      ]_vars

\* a disable for a server the guild does not pull from, in a guild that pulls
\* from another server and has counted a mute
C12_Witness ==
    /\ last.kind = "disable" /\ last.reply = <<"info_not_pulling">>
    /\ last.server \in Guilds
    /\ mute_sources[last.guild] # <<>>
    /\ mute_sources[last.guild] = last.sources_before
    /\ mute_count[last.guild] # EmptyDict

\* the guilds with a stored record whose cached display name is exactly `text`
KnownByName(text) ==
    {d \in Guilds : cached_guild_name[d] # DefaultGuildName /\ cached_guild_name[d] = text}

\* the step is disable(g, server) and its argument resolved by cached name, or
\* did not resolve: the command then reports that the server was not found and
\* leaves mute_sources as it was
ByNameOrNotFound(g, text) ==
    IF KnownByName(text) # {}
    THEN last'.server \in KnownByName(text)
    ELSE /\ last'.server = 0
         /\ last'.reply = <<"error_not_found">>
         /\ mute_sources' = mute_sources

ArgsOfType(type) == {server \in DisableArgs : server.type = type}

\* what the step did with the argument, as the claim has it
ResolvedAsClaimed(g, server) ==
    CASE server.type = "Guild" -> last'.server = server.id
      [] server.type = "int"   -> ByNameOrNotFound(g, "")
      [] server.type = "str"   -> ByNameOrNotFound(g, server.text)

\* the same, a number that is in the guild's mute_sources standing for itself
ResolvedAsInCode(g, server) ==
    CASE server.type = "Guild" -> last'.server = server.id
      [] server.type = "int" /\ server.id \in Range(mute_sources[g])
                               -> last'.server = server.id
      [] server.type = "int" /\ server.id \notin Range(mute_sources[g])
                               -> ByNameOrNotFound(g, "")
      [] server.type = "str"   -> ByNameOrNotFound(g, server.text)

\* the original C13: every disable(g, server) step resolved as claimed: an
\* argument is resolved by its id only if it is a guild the bot is in, and
\* otherwise by exact match with a cached name
C13_Original ==
    [][ (HandlerStep /\ last'.kind = "disable") =>
          \A g \in {last'.guild}, server \in ArgsOfType(last'.arg) :
            ResolvedAsClaimed(g, server) \/ ~disable(g, server)
      ]_vars

\* C13 (amended): resolution in disable, for every disable(g, server) step.  A
\* guild the bot is in resolves to its id; a number that is no such guild
\* resolves to itself when it is in the guild's mute_sources; every other argument resolves by exact, case-sensitive
\* match with the cached name of a guild that has a record, reachable or not;
\* when nothing resolves the command reports that the server was not found and
\* leaves mute_sources as it was.
C13_Resolution ==
    [][ (HandlerStep /\ last'.kind = "disable") =>
          \A g \in {last'.guild}, server \in ArgsOfType(last'.arg) :
            ResolvedAsInCode(g, server) \/ ~disable(g, server)
      ]_vars

\* a disable whose argument was a text: it matched the cached name of a server
\* since renamed, and that server was taken out of mute_sources
C13_Witness ==
    /\ last.kind = "disable" /\ last.arg = "str"
    /\ last.reply = <<"success_removed">>
    /\ cached_guild_name[last.server] # guild_name[last.server]
    /\ last.server \notin Range(mute_sources[last.guild])

\* C14: the state applied mirrors the state observed.  Every edit a handled
\* member update makes carries the timeout the update reported: the same
\* timed_out_until for a timeout, None for a lifted one.
C14_MirrorsState ==
    (last.kind = "member_update" /\ last.handled) =>
        \A c \in last.calls : c.timeout = last.after

\* the cache holds `mute` for member `user` of guild d
CacheHolds(d, user, mute) ==
    /\ d \in DOMAIN mute_cache
    /\ user \in DOMAIN mute_cache[d]
    /\ mute_cache[d][user] = mute

\* C15: the cache records what was applied.  When a handled member update has
\* made its edits, the cache holds the applied state for every destination an
\* edit was made for (so that a later update of the same state from another
\* source skips that destination).
C15_CacheAfterApply ==
    (last.kind = "member_update" /\ last.handled) =>
        \A c \in last.calls : CacheHolds(c.dest, last.user, last.after # NoTimeout)

\* the count a stored mute_count dict holds for a source
CountOf(stored, source) == IF source \in DOMAIN stored THEN stored[source] ELSE 0

\* rec is a handled member update that made an edit for d, and the edit succeeded
AppliedTo(rec, d) == \E c \in rec.calls : c.dest = d /\ c.ok

\* C18: counters.  A handled member update adds exactly one to the counter
\* (destination, source) for every destination it made a successful edit for,
\* whether the edit set or lifted a timeout, and changes no other counter.
C18_CountsEveryApply ==
    [][ (HandlerStep /\ last'.kind = "member_update" /\ last'.handled) =>
          \A d \in Guilds, src \in Guilds :
            CountOf(mute_count'[d], src) =
              CountOf(mute_count[d], src)
                + (IF src = last'.guild /\ AppliedTo(last', d) THEN 1 ELSE 0)
      ]_vars

C21_DifferentUntilApplied ==
    ( /\ last.kind = "member_update" /\ last.handled
      /\ last.before \in Times /\ last.after \in Times )
    => \A b \in Guilds :
          ( /\ b # last.guild /\ PullsFrom(b, last.guild)
            /\ b \in DOMAIN last.status /\ last.status[b] = "ok"
            /\ timed_out_until[b][last.user] # last.after )
          => CallsFor(last.calls, b) # {}

\* C22: unreachable and incapable destinations are left alone.  A member update
\* makes no edit and counts nothing for a guild that pulls from the source and
\* is not there, is unavailable, or in which the bot may not time members out.
C22_SkipsUnreachable ==
    [][ (HandlerStep /\ last'.kind = "member_update" /\ last'.handled) =>
          \A d \in DOMAIN last'.status :
            last'.status[d] \in {"unreachable", "no_perm"} =>
              /\ CallsFor(last'.calls, d) = {}
              /\ mute_count'[d] = mute_count[d]
      ]_vars

\* a timeout in a guild two guilds pull from: the one is unreachable or
\* incapable and got nothing, the other got its edit and counted the mute
C22_Witness ==
    /\ last.kind = "member_update" /\ last.handled /\ last.after \in Times
    /\ \E d \in Guilds, e \in Guilds :
          /\ PullsFrom(d, last.guild) /\ PullsFrom(e, last.guild)
          /\ last.status[d] \in {"unreachable", "no_perm"}
          /\ CallsFor(last.calls, d) = {} /\ mute_count[d] = EmptyDict
          /\ last.status[e] = "ok" /\ AppliedTo(last, e)
          /\ CountOf(mute_count[e], last.guild) = 1

\* C27: propagation follows only current direct edges.  Every edit a member
\* update of guild a makes is made for a guild other than a whose mute_sources
\* holds a when the update is handled, and only such a guild has a counter
\* changed: not a guild that disable has taken a out of, and not a guild that
\* pulls from a guild that pulls from a.
C27_OnlyDirectEdges ==
    [][ (HandlerStep /\ last'.kind = "member_update") =>
          /\ \A c \in last'.calls :
                c.dest # last'.guild /\ PullsFrom(c.dest, last'.guild)
          /\ \A d \in Guilds :
                ~PullsFrom(d, last'.guild) => mute_count'[d] = mute_count[d]
      ]_vars

\* a handled member update of a guild that a destination had pulled and counted
\* a mute from, and pulls from no more: no edit was made
C27_Witness ==
    /\ last.kind = "member_update" /\ last.handled /\ last.calls = {}
    /\ \E d \in Guilds :
          /\ d # last.guild /\ ~PullsFrom(d, last.guild)
          /\ CountOf(mute_count[d], last.guild) = 1

\* the step can be enable(g, server, moderate, answer) with a wait that did not
\* end with a yes, a server that did not resolve, or without the permission
Unconfirmed(g, moderate) ==
    \E server \in EnableArgs, answer \in Answers \cup {"none"} :
        /\ answer # "yes" \/ server.type = "str" \/ ~moderate
        /\ enable(g, server, moderate, answer)

\* C28: an edge is created only after explicit confirmation and capability.  An
\* enable for a new source whose wait ends with a no or times out, an enable
\* naming a server that does not resolve, and an enable run where the bot lacks
\* Timeout Members leave every guild's mute_sources as it was.
C28_OnlyConfirmed ==
    [][ (HandlerStep /\ last'.kind = "enable") =>
          \/ mute_sources' = mute_sources
          \/ ~Unconfirmed(last'.guild, last'.moderate)
      ]_vars

\* an enable for a new source, in a guild that pulls from another server, was
\* asked about and not confirmed: mute_sources is as it was
C28_Witness ==
    /\ last.kind = "enable" /\ last.reply = <<"question", "info_cancelled">>
    /\ last.moderate /\ last.server \notin Range(last.sources_before)
    /\ last.sources_before # <<>>
    /\ mute_sources[last.guild] = last.sources_before

----------------------------------------------------------------------------
\* Properties of the MuteSync commands, one step at a time

\* C23: no lost update on the edge set.  When a confirmed enable has written its
\* result, the guild's mute_sources holds what was stored just before the write
\* and the new source, nothing less (an enable that finished meanwhile is kept)
\* and nothing more (a disable that finished meanwhile is not undone).
C23_NoLostUpdate ==
    (last.kind = "enable" /\ last.reply = <<"question", "success_added">>) =>
        Range(mute_sources[last.guild]) = Range(last.sources_before) \cup {last.server}

----------------------------------------------------------------------------
\* Properties of MuteSync, one step at a time

\* C16: no double apply.  Two runs under way at once, for the same member and
\* the same state, started by updates of two different guilds: no destination
\* has an edit made for it by both.
C16_NoDoubleApply ==
    \A t1 \in tasks, t2 \in tasks :
        ( /\ t1.id # t2.id /\ t1.guild # t2.guild
          /\ t1.user = t2.user /\ t1.mute = t2.mute )
        => t1.called \cap t2.called = {}

\* nothing is waiting and no run is under way
Quiet == events = <<>> /\ tasks = {}

\* the run with this id waits for an edit that never returns
HungAt(id) == \E t \in tasks : t.id = id /\ t.pc = "edit" /\ t.hangs

\* the bounds on waiting updates or on runs are reached
Saturated == Len(events) >= MaxPending \/ FreeIds = {}

BlockedAt(id) ==
    \E t \in tasks :
        /\ t.id = id /\ t.pc = "edit" /\ t.hangs
        /\ \E d \in t.todo \ {t.dest} : ~CacheHolds(d, t.user, t.mute)

\* C20: a hanging destination does not block the others.  When an edit never
\* returns, the run still gets to its other destinations, and the hanging edit
\* is given up in the end.
C20_HangDoesNotBlock ==
    \A id \in TaskIds :
        /\ BlockedAt(id) ~> ~BlockedAt(id)
        /\ HungAt(id) ~> ~HungAt(id)

----------------------------------------------------------------------------
\* Properties of GameInviteControl, one step at a time

\* run r stores its list in this step
Stores(r) ==
    /\ r \in presence_runs /\ r.pc = "inside"
    /\ \E q \in presence_runs' : q.id = r.id /\ q.pc = "post"

\* C24: no lost update on the log.  When a run of on_presence_update stores its
\* list, the guild's log is its entry followed by everything that was stored
\* just before, in its order (the log being below capacity), whatever other
\* runs are under way; the log of every other guild is as it was; and no step
\* but that one changes a log.
C24_NoLostAppend ==
    [][ /\ \A r \in presence_runs :
              Stores(r) =>
                /\ Len(presence_log[r.guild]) < r.cfg.max_log_size =>
                      presence_log'[r.guild] = <<r.entry>> \o presence_log[r.guild]
                /\ \A h \in LogGuilds \ {r.guild} : presence_log'[h] = presence_log[h]
        /\ (presence_log' # presence_log) => \E r \in presence_runs : Stores(r)
      ]_vars

\* two runs for the same guild overlapped: both read the configuration while the
\* log was empty, both have stored, and the log holds the two entries; the other
\* guild's log holds an entry of its own
C24_Witness ==
    \E g \in LogGuilds, h \in LogGuilds, r \in presence_runs :
        /\ g # h /\ r.guild = g /\ r.pc = "post"
        /\ r.invite_log = <<>>
        /\ Len(presence_log[g]) = 2 /\ presence_log[g][1] = r.entry
        /\ Len(presence_log[h]) = 1

\* the step is a presence update
PresenceStep == n_steps' = n_steps + 1 /\ last'.kind = "presence"

\* the presence update of this step was ignored entirely: no run goes on to
\* append, post or delete, and no log changes
Ignored ==
    /\ ~last'.passed
    /\ presence_runs' = presence_runs
    /\ presence_log' = presence_log

\* the presence update of this step goes on to log its entry
GoesOnToLog ==
    /\ last'.passed
    /\ \E r \in presence_runs' \ presence_runs :
          /\ r.guild = last'.guild /\ r.pc = "enter"
          /\ r.entry = log_entry(last'.user, clock)

\* the application id of the update is not in the non-empty tracked_games read
Untracked(e) ==
    e.cfg.tracked_games # <<>> /\ e.app \notin Range(e.cfg.tracked_games)

\* the original C25: an untracked activity is ignored entirely; with an empty
\* tracked_games every invite-capable activity in an enabled guild is logged
C25_Original ==
    [][ PresenceStep =>
          /\ Untracked(last') => Ignored
          /\ (last'.cfg.tracked_games = <<>> /\ last'.cfg.enabled) => GoesOnToLog
      ]_vars

\* C25 (amended): tracked-kind filter.  When tracked_games is not empty and the
\* application id of the invite-capable activity is not in it, the presence
\* update is ignored entirely, whatever the log channel, delete_invites and the
\* lists; when tracked_games is empty, every invite-capable activity of a member
\* who is not a bot, in an enabled guild, is logged.
C25_TrackedFilter ==
    [][ PresenceStep =>
          /\ Untracked(last') => Ignored
          /\ (last'.cfg.tracked_games = <<>> /\ last'.cfg.enabled /\ ~last'.bot)
                => GoesOnToLog
      ]_vars

\* an untracked game shown by a member, in an enabled guild with a log channel
\* and deletion on, after a tracked game was logged there: nothing was done
C25_Witness ==
    /\ last.kind = "presence" /\ ~last.passed
    /\ ~last.bot /\ last.cfg.enabled /\ Untracked(last) /\ last.app = "222"
    /\ last.cfg.log_channel # 0 /\ last.cfg.delete_invites
    /\ Len(presence_log[last.guild]) = 1
    /\ presence_runs = {}

----------------------------------------------------------------------------
\* Properties of the invite log

\* the step appends entry e
Appends(e) == appended' = Append(appended, e)

\* the first k elements of s
FirstN(s, k) == [i \in 1..k |-> s[i]]

\* the last k elements of s, the last one first
LastNReversed(s, k) == [i \in 1..k |-> s[Len(s) + 1 - i]]

\* C7: capacity invariant.  In every state reached by appends and clears the
\* invite log holds at most max_log_size (50) entries.
C7_Capacity == Len(invite_log) <= DefaultMaxLogSize

\* the log is full and an append has evicted an entry
C7_Witness ==
    /\ Len(invite_log) = DefaultMaxLogSize
    /\ Len(appended) = DefaultMaxLogSize + 1

\* C8: newest first, oldest evicted first.  An append puts its entry at the
\* first position and keeps the entries that were there in their order, dropping
\* only the last one when the log was full; after capacity + k appends to an
\* empty log the log holds the last `capacity` appended entries, the last
\* appended first, whatever their timestamps.
C8_NewestFirst ==
    [][ \A u \in InviteUsers, m \in Minutes :
          Appends(log_entry(u, m)) =>
            /\ invite_log'[1] = log_entry(u, m)
            /\ Tail(invite_log') =
                  FirstN(invite_log, Min(Len(invite_log), DefaultMaxLogSize - 1))
            /\ invite_log' =
                  LastNReversed(appended', Min(Len(appended'), DefaultMaxLogSize))
      ]_vars

\* capacity + 2 appends were made, the clock was set back meanwhile: the log is
\* full, its first entry is the last one appended, and an entry stands before
\* one with a later timestamp
C8_Witness ==
    /\ Len(appended) = DefaultMaxLogSize + 2
    /\ Len(invite_log) = DefaultMaxLogSize
    /\ invite_log[1] = appended[Len(appended)]
    /\ \E i \in 1..(Len(invite_log) - 1) :
          invite_log[i].timestamp < invite_log[i + 1].timestamp

\* the sizes a view can be asked for, up to the capacity
SizesUpToCapacity == 0..DefaultMaxLogSize

AnySizes == (0 - DefaultMaxLogSize)..DefaultMaxLogSize

\* C11: the view shows at most 25 entries for every integer value of `entries`,
\* zero and negative values included, and every stored log.
C11_AtMost25 ==
    /\ \A n \in AnySizes : Len(view_recent(invite_log, n)) <= MaxViewEntries
    /\ viewed.kind = "view_log" => Len(viewed.shown) <= MaxViewEntries

----------------------------------------------------------------------------
\* Properties of the inclusion policy

\* in_list as the claim defines it
InList(channel, cfg) ==
    \/ channel.id \in Range(cfg.channels)
    \/ (channel.category_id # 0 /\ channel.category_id \in Range(cfg.categories))

WithMode(cfg, m) == [cfg EXCEPT !.mode = m]

\* C10: should_block.  Both evaluators return in_list under blacklist mode and
\* its negation under whitelist mode, for every mode, lists and channel; a
\* channel without a category is judged by its id alone; the blacklist and the
\* whitelist results for the same lists and channel are complementary.
C10_ShouldBlock ==
    pol_result.kind = "verdict" =>
        LET ch  == pol_input.channel
            cfg == pol_input.cfg
            expected == IF cfg.mode = "blacklist" THEN InList(ch, cfg)
                        ELSE ~InList(ch, cfg)
        IN  /\ pol_result.invite \in BOOLEAN /\ pol_result.sticker \in BOOLEAN
            /\ pol_result.invite = expected
            /\ pol_result.sticker = expected
            /\ ch.category_id = 0 =>
                  pol_result.invite =
                    ((ch.id \in Range(cfg.channels)) = (cfg.mode = "blacklist"))
            /\ should_block_in_channel(ch, WithMode(cfg, "blacklist"))
                  = ~should_block_in_channel(ch, WithMode(cfg, "whitelist"))
            /\ should_block_sticker(ch, WithMode(cfg, "blacklist"))
                  = ~should_block_sticker(ch, WithMode(cfg, "whitelist"))

\* a whitelist whose category list holds the category of the channel and whose
\* channel list does not hold the channel: not blocked
C10_Witness ==
    /\ pol_result.kind = "verdict"
    /\ pol_input.cfg.mode = "whitelist"
    /\ pol_input.channel.id \notin Range(pol_input.cfg.channels)
    /\ pol_input.channel.category_id \in Range(pol_input.cfg.categories)
    /\ pol_input.cfg.channels # <<>>
    /\ ~pol_result.invite /\ ~pol_result.sticker

\* C30: the two inclusion-policy evaluators agree.  For every mode, channel
\* list, category list and channel, with or without a parent category,
\* _should_block_sticker and _should_block_in_channel return the same decision.
C30_EvaluatorsAgree ==
    /\ should_block_sticker(pol_input.channel, pol_input.cfg)
          = should_block_in_channel(pol_input.channel, pol_input.cfg)
    /\ pol_result.kind = "verdict" => pol_result.sticker = pol_result.invite

\* a channel that is not listed itself, in a listed category, under the
\* blacklist: both evaluators block
C30_Witness ==
    /\ pol_result.kind = "verdict"
    /\ pol_input.cfg.mode = "blacklist"
    /\ pol_input.channel.id \notin Range(pol_input.cfg.channels)
    /\ pol_input.channel.category_id \in Range(pol_input.cfg.categories)
    /\ pol_result.sticker /\ pol_result.invite

----------------------------------------------------------------------------
\* Properties of StickerControl

\* C26: deleted sticker events are logged.  Whenever on_message has deleted a
\* message, the configuration names a log channel and the guild has it, the
\* embed was sent to the log channel, also when the warning to the channel
\* failed; and nothing is sent to the log channel when the deletion failed.
C26_DeletionLogged ==
    last.kind = "message" =>
        /\ (last.deleted /\ last.cfg.log_channel # 0 /\ last.exists) => last.logged
        /\ ~last.deleted => ~last.logged

\* the conditions C29 names for a deletion
MayDelete(m) ==
    /\ m.in_guild /\ ~m.author_bot /\ m.stickers
    /\ m.cfg.enabled /\ ~m.manage_messages
    /\ IF m.cfg.mode = "blacklist" THEN InList(m.channel, m.cfg)
       ELSE ~InList(m.channel, m.cfg)

\* C29: the sticker detector deletes a message only if the message is in a
\* guild, its author is no bot, it carries a sticker, sticker control is enabled,
\* the author lacks manage-messages and should_block is true for the channel
\* under the guild's policy; in every other case nothing is deleted, warned or
\* logged; and no message changes the guild's configuration.
C29_DeletesOnlyIf ==
    [][ last'.kind = "message" =>
          /\ last'.deleted => MayDelete(last')
          /\ ~MayDelete(last') => (~last'.deleted /\ ~last'.warned /\ ~last'.logged)
          /\ (last' # last) => sticker_cfg' = sticker_cfg
      ]_vars

\* a sticker in a channel that is not on the whitelist and has no category, by
\* a member without manage-messages: deleted, warned and logged
C29_Witness ==
    /\ last.kind = "message" /\ last.deleted /\ last.warned /\ last.logged
    /\ last.cfg.mode = "whitelist" /\ last.cfg.channels # <<>>
    /\ last.channel.category_id = 0
    /\ sticker_cfg = last.cfg

====
